---- MODULE Spec2Model ----
(***************************************************************************)
(* State-machine model of the spellchecking-ASR-customization utilities:   *)
(*   dataset_preparation/prepare_corpora_after_alignment.py                *)
(*       (get_replacement_vocab, get_sub_misspells, index_by_vocab)        *)
(*   spellchecking_asr_customization_infer.py (the batching loop of main)  *)
(*                                                                         *)
(* Strings are sequences of symbols.  A symbol is one character, except    *)
(* the deletion marker "<DELETE>", which is kept as one symbol: the code   *)
(* only ever replaces the whole marker, before any len() is taken.         *)
(* Positions are Python's (0-based); sequences are TLA+'s (1-based).       *)
(* Log-probabilities are integers in units of 1e-6 nat.                    *)
(***************************************************************************)
EXTENDS Integers, Sequences, FiniteSets, TLC

VARIABLES
    mode,        \* args.mode
    feed,        \* which family of input files the run is given
    pc,          \* position of the script
    error,       \* the exception that ended the run ("" while none)
    vocab,       \* index_by_vocab: the replacement table, in insertion order
    rowpos,      \* how far into RowPool the vocabulary file has got
    nrows,       \* number of vocabulary rows read
    n,           \* number of alignment lines read
    line,        \* the alignment line being processed
    pending,     \* index_by_vocab: (b, ngram, lp) still to be posted, lines 254-255
    index_freq,  \* index_by_vocab: popularity counters, in insertion order
    postings,    \* index_by_vocab: ngram_to_phrase_and_position
    ban_ngram,   \* index_by_vocab: the ban set
    out_file,    \* args.out_filename: NoFile, or the lines written
    full_vocab,  \* get_replacement_vocab / get_sub_misspells: joint counts
    src_vocab,   \* source-fragment counts
    dst_vocab,   \* replacement-fragment counts
    vocab_file,  \* args.vocab_filename as written by get_replacement_vocab
    \* spellchecking_asr_customization_infer.py
    from_filelist, \* whether cfg.inference names a file list and an output folder
    in_files,    \* the content of each input file, a sequence of lines
    batch_size,  \* cfg.inference.batch_size
    ipc,         \* position of the script
    ierror,      \* the exception that ended the run ("" while none)
    fidx,        \* number of input files finished
    lines,       \* f.readlines() of the current file
    li,          \* the loop index i of line 88
    batch,       \* the batch being filled
    all_preds,   \* the predictions collected for the current file
    sent,        \* history: the batches passed to model._infer for the current file
    faithful,    \* history: every batch so far got as many predictions as it had lines
    written      \* the output files written

prep_vars == <<mode, feed, pc, error, vocab, rowpos, nrows, n, line, pending, index_freq,
               postings, ban_ngram, out_file, full_vocab, src_vocab, dst_vocab, vocab_file>>

infer_vars == <<from_filelist, in_files, batch_size, ipc, ierror, fidx, lines, li, batch,
                all_preds, sent, faithful, written>>

vars == <<prep_vars, infer_vars>>

----------------------------------------------------------------------------
(* Python string operations *)

SP == " "
DEL == "<DELETE>"

Min(a, b) == IF a < b THEN a ELSE b
Max(a, b) == IF a > b THEN a ELSE b

\* s[b:e] with Python's clamping of the end
Slice(s, b, e) == SubSeq(s, b + 1, Min(e, Len(s)))

\* s.count(c)
Count(s, c) == Cardinality({i \in 1..Len(s) : s[i] = c})

\* s.replace(c, by), c one symbol, by a string
RECURSIVE Replace(_, _, _)
Replace(s, c, by) ==
    IF s = <<>> THEN <<>>
    ELSE (IF Head(s) = c THEN by ELSE <<Head(s)>>) \o Replace(Tail(s), c, by)

\* s.split(" "): every space separates, empty tokens are kept
RECURSIVE SplitSp(_)
SplitSp(s) ==
    IF \A i \in 1..Len(s) : s[i] # SP THEN <<s>>
    ELSE LET i == CHOOSE k \in 1..Len(s) : s[k] = SP /\ \A m \in 1..(k - 1) : s[m] # SP
         IN  <<SubSeq(s, 1, i - 1)>> \o SplitSp(SubSeq(s, i + 1, Len(s)))

\* " ".join(ts)
RECURSIVE JoinSp(_)
JoinSp(ts) ==
    IF ts = <<>> THEN <<>>
    ELSE IF Len(ts) = 1 THEN ts[1]
    ELSE ts[1] \o <<SP>> \o JoinSp(Tail(ts))

NonEmpty(t) == t # <<>>

\* str.isspace() for the symbols in use
IsSpace(c) == c \in {SP, "\n", "\t"}

\* s.split(): runs of whitespace separate, no empty tokens
SplitWs(s) == SelectSeq(SplitSp([i \in 1..Len(s) |-> IF IsSpace(s[i]) THEN SP ELSE s[i]]), NonEmpty)

\* s.strip()
RECURSIVE LStrip(_)
LStrip(s) == IF s # <<>> /\ IsSpace(Head(s)) THEN LStrip(Tail(s)) ELSE s

RECURSIVE RStrip(_)
RStrip(s) == IF s # <<>> /\ IsSpace(s[Len(s)]) THEN RStrip(SubSeq(s, 1, Len(s) - 1)) ELSE s

Strip(s) == RStrip(LStrip(s))

----------------------------------------------------------------------------
(* index_by_vocab: the replacement table *)

\* the pruning threshold -4.0 of lines 247 and 251, in 1e-6 nat
Threshold == -4000000
\* the rendering length limit of line 246
MaxRenderLen == 10
\* the posting cap of line 263
MaxPostings == 100
\* the window limit of line 233: end < begin + 5
WindowLimit == 5
\* the look-back of line 242: b >= end - 5
LookBack == 5

\* int(joint_freq) / int(src_freq) is defined unless src_freq is 0 (ZeroDivisionError)
DivFails(joint, srcf) == srcf = 0

\* math.log(x) raises ValueError (math domain error) for x <= 0
LogFails(joint, srcf) == joint <= 0

\* math.log(joint / srcf), rounded to 1e-6 nat, for the frequencies of RowPool.
\* math.log(3436494 / 187626215) is the double -4.0 exactly.
MathLog(joint, srcf) ==
    CASE joint = srcf -> 0
      [] joint = 1 /\ srcf = 2 -> -693147
      [] joint = 1 /\ srcf = 50 -> -3912023
      [] joint = 3436494 /\ srcf = 187626215 -> -4000000
      [] joint = 7 /\ srcf = 5 -> 336472

\* vocab[src][dst] = p (line 212): a known (src, dst) keeps its place, a new one is appended
SameKey(r, src, dst) == r.src = src /\ r.dst = dst

VocabSet(v, row) ==
    IF \E i \in 1..Len(v) : SameKey(v[i], row.src, row.dst)
    THEN [i \in 1..Len(v) |-> IF SameKey(v[i], row.src, row.dst) THEN row ELSE v[i]]
    ELSE Append(v, row)

\* inp in vocab (line 235)
InVocab(v, inp) == \E i \in 1..Len(v) : v[i].src = inp

\* vocab[inp], in insertion order (line 237)
VocabOf(v, inp) == LET IsInp(r) == r.src = inp IN SelectSeq(v, IsInp)

----------------------------------------------------------------------------
(* index_by_vocab: expansion of one phrase, lines 228-252 *)

\* A dict is the sequence of its items in insertion order.  An item of
\* index_keys[b] is [ngram, lp, wins]; wins is history, not program state: the
\* windows <<begin, end>> of the candidates the rendering was last built from.

\* d[e.ngram] = e: a known key keeps its place, a new one is appended
DictSet(d, e) ==
    IF \E i \in 1..Len(d) : d[i].ngram = e.ngram
    THEN [i \in 1..Len(d) |-> IF d[i].ngram = e.ngram THEN e ELSE d[i]]
    ELSE Append(d, e)

\* d | news (line 249)
RECURSIVE DictMerge(_, _)
DictMerge(d, news) ==
    IF news = <<>> THEN d ELSE DictMerge(DictSet(d, Head(news)), Tail(news))

\* variant of FitsLength that forgets the rendering built so far
FitsLengthNoPrefix(ngram, rep) == Len(rep) <= MaxRenderLen

\* len(ngram) + len(rep) <= 10 (line 246)
FitsLength(ngram, rep) == Len(ngram) + Len(rep) <= MaxRenderLen

\* variant of EndsAt that also accepts a rendering ending before begin
EndsAtOrBefore(b, ngram, begin) == b + Count(ngram, SP) <= begin

\* b + ngram.count(" ") == begin (line 246)
EndsAt(b, ngram, begin) == b + Count(ngram, SP) = begin

\* variant of AboveThreshold with an inclusive comparison
AtOrAboveThreshold(lp) == lp >= Threshold

\* lp > -4.0 (lines 247 and 251)
AboveThreshold(lp) == lp > Threshold

\* variant of AddScore that keeps the score of the rendering extended
ScoreKeepPrev(lp_prev, lp) == lp_prev

\* lp_prev + lp (lines 247-248)
AddScore(lp_prev, lp) == lp_prev + lp

\* new_ngrams of lines 243-248 for one b
NewNgrams(d, b, begin, end, rep, lp) ==
    LET Grows(e) == /\ FitsLength(e.ngram, rep)
                    /\ EndsAt(b, e.ngram, begin)
                    /\ AboveThreshold(AddScore(e.lp, lp))
        sel == SelectSeq(d, Grows)
    IN  [i \in 1..Len(sel) |->
            [ngram |-> sel[i].ngram \o rep \o <<SP>>,
             lp    |-> AddScore(sel[i].lp, lp),
             wins  |-> Append(sel[i].wins, <<begin, end>>)]]

\* rep.strip() == "" (line 240)
IsBlank(rep) == Strip(rep) = <<>>

\* lines 239-252 for one candidate rep0 of window [begin, end) with score lp
ApplyCand(keys, begin, end, rep0, lp) ==
    LET rep == Replace(rep0, DEL, <<"=">>)
    IN  IF IsBlank(rep) THEN keys
        ELSE LET grown == [i \in 1..Len(keys) |->
                            IF i - 1 >= Max(0, end - LookBack) /\ i - 1 < end
                            THEN DictMerge(keys[i], NewNgrams(keys[i], i - 1, begin, end, rep, lp))
                            ELSE keys[i]]
             IN  IF AboveThreshold(lp)
                 THEN [grown EXCEPT ![begin + 1] =
                          DictSet(@, [ngram |-> rep \o <<SP>>, lp |-> lp,
                                      wins |-> <<<<begin, end>>>>])]
                 ELSE grown

\* for rep in vocab[inp] (lines 237-252)
RECURSIVE ApplyRows(_, _, _, _)
ApplyRows(keys, begin, end, rows) ==
    IF rows = <<>> THEN keys
    ELSE ApplyRows(ApplyCand(keys, begin, end, Head(rows).dst,
                             MathLog(Head(rows).joint, Head(rows).srcf)),
                   begin, end, Tail(rows))

\* the windows of lines 232-233 in loop order, from (begin, end) on
RECURSIVE WindowSeq(_, _, _)
WindowSeq(begin, end, len) ==
    IF begin >= len THEN <<>>
    ELSE IF end >= Min(len + 1, begin + WindowLimit) THEN WindowSeq(begin + 1, begin + 2, len)
    ELSE <<<<begin, end>>>> \o WindowSeq(begin, end + 1, len)

\* inp of line 234
WindowInp(inputs, w) == JoinSp(Slice(inputs, w[1], w[2]))

RECURSIVE ApplyWindows(_, _, _, _)
ApplyWindows(keys, inputs, v, ws) ==
    IF ws = <<>> THEN keys
    ELSE IF ~InVocab(v, WindowInp(inputs, Head(ws)))
    THEN ApplyWindows(keys, inputs, v, Tail(ws))
    ELSE ApplyWindows(ApplyRows(keys, Head(ws)[1], Head(ws)[2],
                                VocabOf(v, WindowInp(inputs, Head(ws)))),
                      inputs, v, Tail(ws))

\* index_keys after the loops of lines 230-252
IndexKeys(inputs, v) ==
    ApplyWindows([i \in 1..Len(inputs) |-> <<>>], inputs, v, WindowSeq(0, 1, Len(inputs)))

\* math.log of line 238 raises for some candidate of the phrase
ExpandFails(inputs, v) ==
    LET ws == WindowSeq(0, 1, Len(inputs))
    IN  \E k \in 1..Len(ws) : \E i \in 1..Len(v) :
            v[i].src = WindowInp(inputs, ws[k]) /\ LogFails(v[i].joint, v[i].srcf)

----------------------------------------------------------------------------
(* index_by_vocab: the inverted index, lines 254-270 *)

\* sorted(items, key=item[1], reverse=True): stable, descending
RECURSIVE InsertDesc(_, _)
InsertDesc(sorted, e) ==
    IF sorted = <<>> THEN <<e>>
    ELSE IF Head(sorted).lp >= e.lp THEN <<Head(sorted)>> \o InsertDesc(Tail(sorted), e)
    ELSE <<e>> \o sorted

RECURSIVE SortDesc(_)
SortDesc(d) ==
    IF d = <<>> THEN <<>> ELSE InsertDesc(SortDesc(SubSeq(d, 1, Len(d) - 1)), d[Len(d)])

\* the iterations of lines 254-255 in order: items [b, ngram, lp, wins]
RECURSIVE PendingFrom(_, _)
PendingFrom(keys, b) ==
    IF b >= Len(keys) THEN <<>>
    ELSE LET s == SortDesc(keys[b + 1])
         IN  [i \in 1..Len(s) |-> [b |-> b, ngram |-> s[i].ngram, lp |-> s[i].lp,
                                   wins |-> s[i].wins]]
             \o PendingFrom(keys, b + 1)

\* lines 257-258
Normalize(ngram) ==
    JoinSp(SplitWs(Replace(Replace(ngram, "+", <<SP>>), "=", <<SP>>)))

\* index_freq[ngram] += 1 (line 259); index_freq is a sequence of [ngram, freq]
FreqOf(f, ngram) ==
    IF \E i \in 1..Len(f) : f[i].ngram = ngram
    THEN (CHOOSE e \in {f[i] : i \in 1..Len(f)} : e.ngram = ngram).freq
    ELSE 0

FreqIncr(f, ngram) ==
    IF \E i \in 1..Len(f) : f[i].ngram = ngram
    THEN [i \in 1..Len(f) |-> IF f[i].ngram = ngram THEN [f[i] EXCEPT !.freq = @ + 1] ELSE f[i]]
    ELSE Append(f, [ngram |-> ngram, freq |-> 1])

\* ngram_to_phrase_and_position[ngram] of a defaultdict(list)
PostingsOf(p, ngram) == IF ngram \in DOMAIN p THEN p[ngram] ELSE <<>>

\* variant of IsBanned that never consults the ban set
NeverBanned(ban, ngram) == FALSE

\* ngram in ban_ngram (line 260)
IsBanned(ban, ngram) == ngram \in ban

\* variant of OverCap that is off by one
OverCapLate(list) == Len(list) > MaxPostings + 1

\* len(ngram_to_phrase_and_position[ngram]) > 100 (line 263)
OverCap(list) == Len(list) > MaxPostings

\* sorted(index_freq.items(), key=item[1], reverse=True): stable, descending
RECURSIVE InsertByFreq(_, _)
InsertByFreq(sorted, e) ==
    IF sorted = <<>> THEN <<e>>
    ELSE IF Head(sorted).freq >= e.freq THEN <<Head(sorted)>> \o InsertByFreq(Tail(sorted), e)
    ELSE <<e>> \o sorted

RECURSIVE SortByFreq(_)
SortByFreq(f) ==
    IF f = <<>> THEN <<>> ELSE InsertByFreq(SortByFreq(SubSeq(f, 1, Len(f) - 1)), f[Len(f)])

\* the lines written by lines 268-270
RECURSIVE IndexLines(_, _)
IndexLines(order, p) ==
    IF order = <<>> THEN <<>>
    ELSE LET ng == Head(order).ngram
             ps == PostingsOf(p, ng)
         IN  [i \in 1..Len(ps) |-> [ngram |-> ng, phrase |-> ps[i].phrase, b |-> ps[i].b,
                                    length |-> ps[i].length, lp |-> ps[i].lp]]
             \o IndexLines(Tail(order), p)

----------------------------------------------------------------------------
(* get_replacement_vocab and get_sub_misspells: the counters *)

\* process_line (lines 39-50): None unless the line has 4 fields and starts "good:"
ProcessLineIsNone(l) == l.nf # 4 \/ l.tag # "good:"

\* d[k] += 1 on a defaultdict(int)
CountOf(d, k) == IF k \in DOMAIN d THEN d[k] ELSE 0

Incr(d, k) == [x \in DOMAIN d \cup {k} |-> IF x = k THEN CountOf(d, k) + 1 ELSE d[x]]

\* full_vocab[inp][rep] += 1 (lines 66-68); full_vocab is a sequence of [inp, rep, joint]
FullIncr(f, inp, rep) ==
    IF \E i \in 1..Len(f) : f[i].inp = inp /\ f[i].rep = rep
    THEN [i \in 1..Len(f) |-> IF f[i].inp = inp /\ f[i].rep = rep
                              THEN [f[i] EXCEPT !.joint = @ + 1] ELSE f[i]]
    ELSE Append(f, [inp |-> inp, rep |-> rep, joint |-> 1])

\* lines 63-65
CleanRep(rep) ==
    Replace(Replace(Replace(Replace(rep, DEL, <<>>), "+", <<>>), SP, <<>>), "_", <<SP>>)

CleanInp(inp) == Replace(Replace(inp, SP, <<>>), "_", <<SP>>)

\* update_vocabs_with_aligned_fragment (lines 53-70); st is [full, src, dst]
UpdateVocabs(st, inputs, replacements, clean) ==
    LET inp == IF clean THEN CleanInp(JoinSp(inputs)) ELSE JoinSp(inputs)
        rep == IF clean THEN CleanRep(JoinSp(replacements)) ELSE JoinSp(replacements)
    IN  [full |-> FullIncr(st.full, inp, rep),
         src  |-> Incr(st.src, inp),
         dst  |-> Incr(st.dst, rep)]

\* variant of LengthMismatch that lets every line through
NeverMismatch(inputs, replacements) == FALSE

\* len(inputs) != len(replacements) (lines 92 and 140)
LengthMismatch(inputs, replacements) == Len(inputs) # Len(replacements)

\* the (begin, end) of lines 95-96 in loop order, from (begin, end) on
FragmentLimit == 5

RECURSIVE FragmentSeq(_, _, _)
FragmentSeq(begin, end, len) ==
    IF begin >= len THEN <<>>
    ELSE IF end >= begin + FragmentLimit THEN FragmentSeq(begin + 1, begin + 2, len)
    ELSE <<<<begin, end>>>> \o FragmentSeq(begin, end + 1, len)

\* lines 94-103
RECURSIVE CountFragments(_, _, _, _)
CountFragments(st, inputs, replacements, ws) ==
    IF ws = <<>> THEN st
    ELSE CountFragments(UpdateVocabs(st, Slice(inputs, Head(ws)[1], Head(ws)[2]),
                                     Slice(replacements, Head(ws)[1], Head(ws)[2]), FALSE),
                        inputs, replacements, Tail(ws))

\* the rows written by lines 105-119 (and 173-191): grouped by inp in the order
\* the inps were first seen, each group in the order its reps were first seen
RECURSIVE InpOrder(_, _)
InpOrder(f, seen) ==
    IF f = <<>> THEN <<>>
    ELSE IF Head(f).inp \in seen THEN InpOrder(Tail(f), seen)
    ELSE <<Head(f).inp>> \o InpOrder(Tail(f), seen \cup {Head(f).inp})

RECURSIVE VocabRows(_, _)
VocabRows(st, inps) ==
    IF inps = <<>> THEN <<>>
    ELSE LET OfInp(e) == e.inp = Head(inps)
             g == SelectSeq(st.full, OfInp)
         IN  [i \in 1..Len(g) |-> [src |-> g[i].inp, dst |-> g[i].rep, joint |-> g[i].joint,
                                   srcf |-> st.src[g[i].inp], dstf |-> st.dst[g[i].rep]]]
             \o VocabRows(st, Tail(inps))

\* lines 142-171: i is the loop index, begin the start of the current word
RECURSIVE CountWords(_, _, _, _, _)
CountWords(st, inputs, replacements, i, begin) ==
    IF i >= Len(inputs)
    THEN LET last == IF begin > 0
                     THEN UpdateVocabs(st, Slice(inputs, begin, Len(inputs)),
                                       Slice(replacements, begin, Len(replacements)), TRUE)
                     ELSE st
         IN  UpdateVocabs(last, inputs, replacements, TRUE)
    ELSE IF inputs[i + 1] = <<"_">> /\ replacements[i + 1] = <<"_">>
    THEN CountWords(UpdateVocabs(st, Slice(inputs, begin, i), Slice(replacements, begin, i), TRUE),
                    inputs, replacements, i + 1, i + 1)
    ELSE CountWords(st, inputs, replacements, i + 1, begin)

\* the filters of lines 176-179: joint / srcf <= 1/200, or rep == ""
MisspellDenominator == 200

KeptMisspell(r) == ~(r.joint * MisspellDenominator <= r.srcf) /\ r.dst # <<>>

----------------------------------------------------------------------------
(* The input files *)

\* at most MaxRows rows in the vocabulary file, at most MaxLines lines in the
\* alignment file; the long alignment file has StreamTail free lines at its end
MaxRows == 2
MaxLines == 2
StreamTail == 3

Rep(c, k) == [i \in 1..k |-> c]

Row(src, dst, joint, srcf) == [nf |-> 5, src |-> src, dst |-> dst, joint |-> joint, srcf |-> srcf]

\* The vocabulary file is a subsequence of RowPool.
RowPool ==
    << Row(<<"a", SP, "b">>, <<"x">>, 1, 2),
       Row(<<"b", SP, "c">>, <<"y">>, 1, 2),
       Row(<<"a">>, <<"x">>, 1, 2),
       Row(<<"a">>, <<"x">>, 3436494, 187626215),
       Row(<<"b">>, <<"y">>, 1, 50),
       Row(<<"a">>, <<DEL>>, 1, 2),
       Row(<<"b">>, Rep("z", 8), 1, 1),
       Row(<<"b">>, Rep("z", 10), 1, 1),
       Row(<<"b", SP, "c">>, <<"y", SP, "+">>, 1, 2),
       Row(<<"c">>, <<"z">>, 0, 5),
       Row(<<"c">>, <<"z">>, 7, 5),
       Row(<<"c">>, <<"z">>, 1, 0),
       Row(<<"c">>, <<>>, 1, 2),
       [nf |-> 4, src |-> <<"c">>, dst |-> <<"z">>, joint |-> 1, srcf |-> 2] >>

\* The vocabulary of the long run: both rows render "a" as the ngram "z".
StreamRowPool ==
    << Row(<<"a">>, <<"z">>, 1, 2),
       Row(<<"a">>, <<"+", SP, "z">>, 1, 2) >>

Rows(f) == IF f = "stream" THEN StreamRowPool ELSE RowPool

Line(tag, nf, src, dst, align) == [tag |-> tag, nf |-> nf, src |-> src, dst |-> dst, align |-> align]

LinePool ==
    { Line("good:", 4, <<"a", SP, "b", SP, "c">>, <<"x", SP, "y">>, <<"x", SP, "y", SP, "+">>),
      Line("good:", 4, <<"a", SP, "b">>, <<"x">>, <<"x">>),
      Line("good:", 4, <<"a", SP, "_", SP, "b">>, <<"x", SP, "y">>, <<"x", SP, "_", SP, "y">>),
      Line("bad:", 4, <<"a">>, <<"x">>, <<"x">>),
      Line("good:", 3, <<"a">>, <<"x">>, <<>>) }

\* line k of the long alignment file: a phrase no other line has
StreamLine(k) == Line("good:", 4, <<"a", SP, ToString(k)>>, <<"a">>, <<"a", SP, "a">>)
StreamDouble(k) == Line("good:", 4, <<"a", SP, "a", SP, ToString(k)>>, <<"a">>, <<"a">>)
StreamBad(k) == Line("bad:", 4, <<"a", SP, ToString(k)>>, <<"a">>, <<"a">>)

StreamFixed == MaxPostings - 1

LineBound(f) == IF f = "stream" THEN StreamFixed + StreamTail ELSE MaxLines

LineChoices(f, k) ==
    IF f = "stream"
    THEN IF k <= StreamFixed THEN {StreamLine(k)}
         ELSE {StreamLine(k), StreamDouble(k), StreamBad(k)}
    ELSE LinePool

Modes == {"get_replacement_vocab", "index_by_vocab", "get_sub_misspells", "edit_distance"}

NoFile == [exists |-> FALSE, lines |-> <<>>]
File(ls) == [exists |-> TRUE, lines |-> ls]
NoLine == Line("", 0, <<>>, <<>>, <<>>)
EmptyMap == [k \in {} |-> 0]

----------------------------------------------------------------------------
(* prepare_corpora_after_alignment.py *)

\* the inference script before it is given its configuration
InferIdle(filelist, files, bs) ==
    /\ from_filelist = filelist
    /\ in_files = files
    /\ batch_size = bs
    /\ ipc = "start"
    /\ ierror = ""
    /\ fidx = 0
    /\ lines = <<>>
    /\ li = 0
    /\ batch = <<>>
    /\ all_preds = <<>>
    /\ sent = <<>>
    /\ faithful = TRUE
    /\ written = <<>>

InitWith(f, modes) ==
    /\ mode \in modes
    /\ feed = f
    /\ pc = "main"
    /\ error = ""
    /\ vocab = <<>>
    /\ rowpos = 0
    /\ nrows = 0
    /\ n = 0
    /\ line = NoLine
    /\ pending = <<>>
    /\ index_freq = <<>>
    /\ postings = EmptyMap
    /\ ban_ngram = {}
    /\ out_file = NoFile
    /\ full_vocab = <<>>
    /\ src_vocab = EmptyMap
    /\ dst_vocab = EmptyMap
    /\ vocab_file = NoFile

Init == InitWith("pool", Modes) /\ InferIdle(FALSE, <<>>, 1)

InitCap == InitWith("stream", {"index_by_vocab"}) /\ InferIdle(FALSE, <<>>, 1)

idx_vars == <<vocab, rowpos, nrows, pending, index_freq, postings, ban_ngram>>
cnt_vars == <<full_vocab, src_vocab, dst_vocab>>

\* main (lines 274-282) and the check of lines 200-201
Main ==
    /\ pc = "main"
    /\ \E vocab_exists \in BOOLEAN :
         CASE mode = "get_replacement_vocab" -> pc' = "grv" /\ error' = error
           [] mode = "get_sub_misspells" -> pc' = "gsm" /\ error' = error
           [] mode = "index_by_vocab" ->
                IF vocab_exists THEN pc' = "load" /\ error' = error
                ELSE pc' = "failed" /\ error' = "ValueError: vocab file does not exist"
           [] OTHER -> pc' = "failed" /\ error' = "ValueError: unknown mode"
    /\ UNCHANGED <<mode, feed, n, line, out_file, vocab_file>>
    /\ UNCHANGED idx_vars
    /\ UNCHANGED cnt_vars
    /\ UNCHANGED infer_vars

\* one row of the vocabulary file (lines 207-212)
LoadRow ==
    /\ pc = "load"
    /\ nrows < MaxRows
    /\ \E k \in (rowpos + 1)..Len(Rows(feed)) :
         LET row == Rows(feed)[k]
         IN  /\ rowpos' = k
             /\ nrows' = nrows + 1
             /\ IF row.nf # 5
                THEN pc' = "failed" /\ error' = "ValueError: unpack" /\ vocab' = vocab
                ELSE IF row.src = <<>> \/ row.dst = <<>>
                THEN pc' = "failed" /\ error' = "AssertionError" /\ vocab' = vocab
                ELSE IF DivFails(row.joint, row.srcf)
                THEN pc' = "failed" /\ error' = "ZeroDivisionError" /\ vocab' = vocab
                ELSE /\ pc' = pc
                     /\ error' = error
                     /\ vocab' = VocabSet(vocab, [src |-> row.src, dst |-> row.dst,
                                                  joint |-> row.joint, srcf |-> row.srcf])
    /\ UNCHANGED <<mode, feed, n, line, pending, index_freq, postings, ban_ngram,
                   out_file, vocab_file>>
    /\ UNCHANGED cnt_vars
    /\ UNCHANGED infer_vars

\* the end of the vocabulary file; the output file is opened (line 217)
OpenOut ==
    /\ pc = "load"
    /\ pc' = "lines"
    /\ out_file' = File(<<>>)
    /\ UNCHANGED <<mode, feed, error, n, line, vocab_file>>
    /\ UNCHANGED idx_vars
    /\ UNCHANGED cnt_vars
    /\ UNCHANGED infer_vars

\* one line of the alignment file, up to the expansion (lines 220-252)
IndexLine ==
    /\ pc = "lines"
    /\ n < LineBound(feed)
    /\ \E l \in LineChoices(feed, n + 1) :
         /\ n' = n + 1
         /\ line' = l
         /\ IF ProcessLineIsNone(l)
            THEN pending' = <<>> /\ pc' = "lines" /\ error' = error
            ELSE LET inputs == SplitSp(l.src)
                 IN  IF ExpandFails(inputs, vocab)
                     THEN /\ pending' = <<>>
                          /\ pc' = "failed"
                          /\ error' = "ValueError: math domain error"
                     ELSE LET pend == PendingFrom(IndexKeys(inputs, vocab), 0)
                          IN  /\ pending' = pend
                              /\ pc' = IF pend = <<>> THEN "lines" ELSE "post"
                              /\ error' = error
    /\ UNCHANGED <<mode, feed, vocab, rowpos, nrows, index_freq, postings, ban_ngram,
                   out_file, vocab_file>>
    /\ UNCHANGED cnt_vars
    /\ UNCHANGED infer_vars

\* one iteration of the loop of lines 255-266
Post ==
    /\ pc = "post"
    /\ LET item == Head(pending)
           real_length == Count(item.ngram, SP)
           ngram == Normalize(item.ngram)
           list == Append(PostingsOf(postings, ngram),
                          [phrase |-> line.src, b |-> item.b,
                           length |-> real_length, lp |-> item.lp])
       IN  /\ index_freq' = FreqIncr(index_freq, ngram)
           /\ IF IsBanned(ban_ngram, ngram)
              THEN UNCHANGED <<postings, ban_ngram>>
              ELSE IF OverCap(list)
              THEN /\ ban_ngram' = ban_ngram \cup {ngram}
                   /\ postings' = [k \in DOMAIN postings \ {ngram} |-> postings[k]]
              ELSE /\ ban_ngram' = ban_ngram
                   /\ postings' = [k \in DOMAIN postings \cup {ngram} |->
                                      IF k = ngram THEN list ELSE postings[k]]
    /\ pending' = Tail(pending)
    /\ pc' = IF Tail(pending) = <<>> THEN "lines" ELSE "post"
    /\ UNCHANGED <<mode, feed, error, vocab, rowpos, nrows, n, line, out_file, vocab_file>>
    /\ UNCHANGED cnt_vars
    /\ UNCHANGED infer_vars

\* the end of the alignment file: the index is written (lines 268-271)
WriteIndex ==
    /\ pc = "lines"
    /\ out_file' = File(IndexLines(SortByFreq(index_freq), postings))
    /\ pc' = "done"
    /\ UNCHANGED <<mode, feed, error, n, line, vocab_file>>
    /\ UNCHANGED idx_vars
    /\ UNCHANGED cnt_vars
    /\ UNCHANGED infer_vars

Counters == [full |-> full_vocab, src |-> src_vocab, dst |-> dst_vocab]

\* one line of the alignment file in get_replacement_vocab (lines 82-103)
GrvLine ==
    /\ pc = "grv"
    /\ n < LineBound(feed)
    /\ \E l \in LineChoices(feed, n + 1) :
         /\ n' = n + 1
         /\ line' = l
         /\ IF ProcessLineIsNone(l)
            THEN pc' = pc /\ error' = error /\ UNCHANGED cnt_vars
            ELSE LET inputs == SplitSp(l.src)
                     replacements == SplitSp(l.align)
                 IN  IF LengthMismatch(inputs, replacements)
                     THEN /\ pc' = "failed"
                          /\ error' = "ValueError: Length mismatch"
                          /\ UNCHANGED cnt_vars
                     ELSE LET st == CountFragments(Counters, inputs, replacements,
                                                   FragmentSeq(0, 1, Len(inputs)))
                          IN  /\ full_vocab' = st.full
                              /\ src_vocab' = st.src
                              /\ dst_vocab' = st.dst
                              /\ pc' = pc
                              /\ error' = error
    /\ UNCHANGED <<mode, feed, out_file, vocab_file>>
    /\ UNCHANGED idx_vars
    /\ UNCHANGED infer_vars

\* the end of the alignment file: the vocabulary is written (lines 105-119)
GrvWrite ==
    /\ pc = "grv"
    /\ vocab_file' = File(VocabRows(Counters, InpOrder(full_vocab, {})))
    /\ pc' = "done"
    /\ UNCHANGED <<mode, feed, error, n, line, out_file>>
    /\ UNCHANGED idx_vars
    /\ UNCHANGED cnt_vars
    /\ UNCHANGED infer_vars

\* one line of the alignment file in get_sub_misspells (lines 130-171)
GsmLine ==
    /\ pc = "gsm"
    /\ n < LineBound(feed)
    /\ \E l \in LineChoices(feed, n + 1) :
         /\ n' = n + 1
         /\ line' = l
         /\ IF ProcessLineIsNone(l)
            THEN pc' = pc /\ error' = error /\ UNCHANGED cnt_vars
            ELSE LET inputs == SplitSp(l.src)
                     replacements == SplitSp(l.align)
                 IN  IF LengthMismatch(inputs, replacements)
                     THEN /\ pc' = "failed"
                          /\ error' = "ValueError: Length mismatch"
                          /\ UNCHANGED cnt_vars
                     ELSE LET st == CountWords(Counters, inputs, replacements, 0, 0)
                          IN  /\ full_vocab' = st.full
                              /\ src_vocab' = st.src
                              /\ dst_vocab' = st.dst
                              /\ pc' = pc
                              /\ error' = error
    /\ UNCHANGED <<mode, feed, out_file, vocab_file>>
    /\ UNCHANGED idx_vars
    /\ UNCHANGED infer_vars

\* the end of the alignment file: the misspells are written (lines 173-191)
GsmWrite ==
    /\ pc = "gsm"
    /\ out_file' = File(SelectSeq(VocabRows(Counters, InpOrder(full_vocab, {})), KeptMisspell))
    /\ pc' = "done"
    /\ UNCHANGED <<mode, feed, error, n, line, vocab_file>>
    /\ UNCHANGED idx_vars
    /\ UNCHANGED cnt_vars
    /\ UNCHANGED infer_vars

NextIndex == Main \/ LoadRow \/ OpenOut \/ IndexLine \/ Post \/ WriteIndex

Next == NextIndex \/ GrvLine \/ GrvWrite \/ GsmLine \/ GsmWrite

Spec == Init /\ [][Next]_vars

SpecCap == InitCap /\ [][NextIndex]_vars

----------------------------------------------------------------------------
(* Properties of index_by_vocab *)

\* the lines of the index written by index_by_vocab
IndexOut == IF mode = "index_by_vocab" THEN out_file.lines ELSE <<>>

\* the lines of the index for one ngram, in file order
OutLinesOf(ng) == LET IsNg(l) == l.ngram = ng IN SelectSeq(IndexOut, IsNg)

\* every posting held or written
AllPostings ==
    UNION {{postings[ng][i] : i \in 1..Len(postings[ng])} : ng \in DOMAIN postings}
        \cup {[phrase |-> IndexOut[i].phrase, b |-> IndexOut[i].b,
               length |-> IndexOut[i].length, lp |-> IndexOut[i].lp] :
                  i \in 1..Len(IndexOut)}

PendingItems == {pending[i] : i \in 1..Len(pending)}

PhraseABC == <<"a", SP, "b", SP, "c">>

\* C1: every posting generated by index_by_vocab, from a fresh-start candidate or
\* from a chain of extensions, carries a log-probability strictly greater than
\* -4.0; a rendering whose score is -4.0 or lower is never about to be posted,
\* never held in the index and never written.
C1_PostingsAboveThreshold ==
    /\ \A it \in PendingItems : it.lp > Threshold
    /\ \A p \in AllPostings : p.lp > Threshold

\* C1 witness: a run is complete whose table held a candidate scoring exactly
\* -4.0 ("a" -> "x") and one scoring above it ("b" -> "y"), and only the second
\* was written.
C1_Witness ==
    /\ pc = "done"
    /\ mode = "index_by_vocab"
    /\ \E i \in 1..Len(vocab) :
          /\ vocab[i].joint = 3436494
          /\ MathLog(vocab[i].joint, vocab[i].srcf) = Threshold
    /\ \E i \in 1..Len(vocab) : vocab[i].srcf = 50
    /\ OutLinesOf(<<"y">>) # <<>>
    /\ OutLinesOf(<<"x">>) = <<>>
    /\ FreqOf(index_freq, <<"x">>) = 0

\* C2: in every step of index_by_vocab: the ban set only grows; no ngram holds
\* more than 100 postings; a banned ngram holds none; an iteration of the
\* posting loop adds 1 to the popularity counter of its ngram, banned or not;
\* it leaves the postings alone when the ngram is banned, bans the ngram and
\* discards its postings when the append is the 101st, and appends otherwise;
\* no line of the output belongs to a banned ngram.
C2_Step ==
    /\ ban_ngram \subseteq ban_ngram'
    /\ \A ng \in DOMAIN postings' : Len(postings'[ng]) <= MaxPostings
    /\ ban_ngram' \cap DOMAIN postings' = {}
    /\ pc = "post" =>
         LET ng == Normalize(Head(pending).ngram)
             held == Len(PostingsOf(postings, ng))
         IN  /\ FreqOf(index_freq', ng) = FreqOf(index_freq, ng) + 1
             /\ ng \in ban_ngram => postings' = postings
             /\ (ng \notin ban_ngram /\ held = MaxPostings) =>
                    (ng \in ban_ngram' /\ ng \notin DOMAIN postings')
             /\ (ng \notin ban_ngram /\ held < MaxPostings) =>
                    (ng \notin ban_ngram' /\ Len(postings'[ng]) = held + 1)
    /\ pc' = "done" =>
         \A i \in 1..Len(out_file'.lines) : out_file'.lines[i].ngram \notin ban_ngram'

\* C2: every step of index_by_vocab is a C2_Step: once banned an ngram stays
\* banned, receives no posting and no output line, its counter still grows,
\* and no ngram ever holds more than 100 postings.
C2_BanIsPermanent == [][C2_Step]_vars

\* C2 witness: the run is complete, an ngram is banned, and its popularity
\* counter has grown past the 101 generations that banned it.
C2_Witness ==
    /\ pc = "done"
    /\ \E ng \in ban_ngram : FreqOf(index_freq, ng) > MaxPostings + 1

\* the run was fed n distinct phrases, each of which generated the ngram "z" once
OnceEach ==
    /\ feed = "stream"
    /\ pc = "done"
    /\ vocab = <<[src |-> <<"a">>, dst |-> <<"z">>, joint |-> 1, srcf |-> 2]>>
    /\ FreqOf(index_freq, <<"z">>) = n
    /\ FreqOf(index_freq, <<"z", SP, "z">>) = 0

\* C3 as stated: 101 distinct phrases that each generate "z" once leave exactly
\* 100 postings for it in the written output.
C3_Original ==
    (OnceEach /\ n = MaxPostings + 1) => Len(OutLinesOf(<<"z">>)) = MaxPostings

\* C3 amended: n distinct phrases that each generate "z" once leave n postings
\* for it in the written output, in the order fed, when n <= 100, and none when
\* n >= 101: the 101st append bans the ngram and discards the 100 held.
C3_CapDiscardsAll ==
    OnceEach =>
        LET zs == OutLinesOf(<<"z">>)
        IN  IF n <= MaxPostings
            THEN /\ Len(zs) = n
                 /\ \A i \in 1..n : /\ zs[i].phrase = StreamLine(i).src
                                    /\ zs[i].b = 0
                                    /\ zs[i].length = 1
            ELSE zs = <<>> /\ <<"z">> \in ban_ngram

\* C3 witness: 101 distinct phrases were fed, each generated "z" once, and the
\* output is written.
C3_Witness == OnceEach /\ n = MaxPostings + 1

\* C4 as stated: no rendering turned into a posting is longer than 10
\* characters, its trailing space included.
C4_Original == \A it \in PendingItems : Len(it.ngram) <= MaxRenderLen

\* C4 amended: a rendering produced by extension is at most 10 characters long
\* before its final trailing space (11 with it); a fresh-start rendering is not
\* length-limited.
C4_ExtensionLength ==
    \A it \in PendingItems : Len(it.wins) > 1 => Len(it.ngram) <= MaxRenderLen + 1

\* C4 witness: a rendering produced by extension is 11 characters long with
\* its trailing space.
C4_Witness ==
    \E it \in PendingItems : Len(it.wins) > 1 /\ Len(it.ngram) = MaxRenderLen + 1

\* C5 as stated: a target that is blank once its deletion markers are removed
\* yields no covering, so no rendering about to be posted, no ngram of the index
\* and no line of the output is the empty string after normalisation.
C5_NoEmptyNgram ==
    /\ \A it \in PendingItems : Normalize(it.ngram) # <<>>
    /\ <<>> \notin DOMAIN postings
    /\ OutLinesOf(<<>>) = <<>>

\* the table is "a b" -> "x" (0.5), "b c" -> "y" (0.5), and the one line
\* "a b c" has been indexed and written
C6_Scenario ==
    /\ mode = "index_by_vocab"
    /\ pc = "done"
    /\ vocab = << [src |-> <<"a", SP, "b">>, dst |-> <<"x">>, joint |-> 1, srcf |-> 2],
                  [src |-> <<"b", SP, "c">>, dst |-> <<"y">>, joint |-> 1, srcf |-> 2] >>
    /\ n = 1
    /\ line.src = PhraseABC
    /\ line.tag = "good:"

OutLine(ng, ph, b, len, lp) == [ngram |-> ng, phrase |-> ph, b |-> b, length |-> len, lp |-> lp]

\* C6 as stated: "x" is indexed at position 2 and "x y" at position 3, with
\* score 2 * ln 0.5.
C6_Original ==
    C6_Scenario =>
        /\ \E i \in 1..Len(IndexOut) :
              LET l == IndexOut[i]
              IN  l.ngram = <<"x">> /\ l.phrase = PhraseABC /\ l.b = 2
        /\ \E i \in 1..Len(IndexOut) :
              LET l == IndexOut[i]
              IN  /\ l.ngram = <<"x", SP, "y">> /\ l.phrase = PhraseABC /\ l.b = 3
                  /\ l.lp = 2 * MathLog(1, 2)

\* C6 amended: "x" is indexed at start position 0 with span length 1 and
\* "x y" at start position 0 with span length 2 and score 2 * ln 0.5 ("y"
\* alone at position 1): coverings are keyed by the position they start at.
C6_StartPositions ==
    C6_Scenario =>
        out_file.lines =
            << OutLine(<<"x">>, PhraseABC, 0, 1, MathLog(1, 2)),
               OutLine(<<"x", SP, "y">>, PhraseABC, 0, 2, 2 * MathLog(1, 2)),
               OutLine(<<"y">>, PhraseABC, 1, 1, MathLog(1, 2)) >>

\* C6 witness: the scenario has run to the end.
C6_Witness == C6_Scenario /\ Len(IndexOut) = 3

\* C7 as stated: every probability of the loaded table satisfies
\* 0 < joint_freq <= source_freq.
C7_ProbInUnitInterval ==
    \A i \in 1..Len(vocab) :
        vocab[i].srcf > 0 /\ 0 < vocab[i].joint /\ vocab[i].joint <= vocab[i].srcf

\* the line just read is a "good:" line whose source and alignment facets
\* have different token counts
MismatchRead ==
    /\ n > 0
    /\ ~ProcessLineIsNone(line)
    /\ Len(SplitSp(line.src)) # Len(SplitSp(line.align))

ReadsAlignment == {"get_replacement_vocab", "get_sub_misspells", "index_by_vocab"}

\* C8 as stated: in every mode that reads the alignment file such a line
\* aborts the run, and get_replacement_vocab has written no vocabulary file.
C8_Original ==
    (mode \in ReadsAlignment /\ MismatchRead) =>
        /\ pc = "failed"
        /\ mode = "get_replacement_vocab" => ~vocab_file.exists

\* C8 amended: in get_replacement_vocab and get_sub_misspells such a line
\* aborts the run with the length-mismatch error and neither the vocabulary
\* file nor the output file is written; index_by_vocab reads only the source
\* facet and does not compare the two.
C8_MismatchAborts ==
    (mode \in {"get_replacement_vocab", "get_sub_misspells"} /\ MismatchRead) =>
        /\ pc = "failed"
        /\ error = "ValueError: Length mismatch"
        /\ ~vocab_file.exists
        /\ ~out_file.exists

\* C8 witness: get_replacement_vocab counted the fragments of one line and was
\* then aborted by a mismatching line.
C8_Witness ==
    /\ mode = "get_replacement_vocab"
    /\ MismatchRead
    /\ pc = "failed"
    /\ full_vocab # <<>>

\* the windows of a rendering follow one another without gap or overlap from
\* its start position b
Contiguous(it) ==
    /\ it.wins[1][1] = it.b
    /\ \A k \in 1..(Len(it.wins) - 1) : it.wins[k][2] = it.wins[k + 1][1]

\* the span_length written for a rendering is the number of phrase tokens its
\* windows cover
SpanIsCovered(it) ==
    Count(it.ngram, SP) =
        Cardinality({p \in 0..Len(line.src) :
                        \E k \in 1..Len(it.wins) : it.wins[k][1] <= p /\ p < it.wins[k][2]})

\* every target has as many space-separated tokens as its source n-gram
TokenPreserving(v) == \A i \in 1..Len(v) : Count(v[i].dst, SP) = Count(v[i].src, SP)

\* C9 as stated: for every table, every rendering about to be posted is built
\* from contiguous, non-overlapping windows, and its span_length is the number
\* of tokens they cover.
C9_Original == \A it \in PendingItems : Contiguous(it) /\ SpanIsCovered(it)

\* C9 amended: when every target of the table has as many space-separated
\* tokens as its source n-gram, every rendering about to be posted is built from
\* contiguous, non-overlapping windows, and its span_length is the number of
\* tokens they cover.  (The code extends a rendering when its start position
\* plus its number of spaces equals begin.)
C9_ContiguousWindows ==
    TokenPreserving(vocab) => \A it \in PendingItems : Contiguous(it) /\ SpanIsCovered(it)

\* C9 witness: under such a table a rendering built from a one-token window
\* and a two-token window is about to be posted.
C9_Witness ==
    /\ TokenPreserving(vocab)
    /\ \E it \in PendingItems :
          Len(it.wins) = 2 /\ it.wins[2][2] - it.wins[2][1] = 2 /\ Count(it.ngram, SP) = 3

\* the windows [begin, end) of a phrase of len tokens with 1 to 4 tokens that
\* end at or before its last token
TrueWindows(len) ==
    {w \in (0..len) \X (0..len) : w[1] < w[2] /\ w[2] - w[1] < FragmentLimit}

\* the source fragment and the aligned replacement fragment of a window
SrcFragment(l, w) == JoinSp(Slice(SplitSp(l.src), w[1], w[2]))
RepFragment(l, w) == JoinSp(Slice(SplitSp(l.align), w[1], w[2]))

\* full_vocab[inp][rep], 0 when the pair was never seen
JointOf(f, inp, rep) ==
    IF \E i \in 1..Len(f) : f[i].inp = inp /\ f[i].rep = rep
    THEN (CHOOSE e \in {f[i] : i \in 1..Len(f)} : e.inp = inp /\ e.rep = rep).joint
    ELSE 0

\* get_replacement_vocab has just counted the fragments of a "good:" line
CountedLine ==
    /\ mode = "get_replacement_vocab"
    /\ pc = "grv"
    /\ n' = n + 1
    /\ ~ProcessLineIsNone(line')
    /\ pc' = "grv"

\* C11: in get_replacement_vocab every "good:" line adds, to the source count
\* of each fragment, to the count of each replacement fragment and to the
\* joint count of each pair, exactly the number of windows of 1 to 4 tokens
\* ending within the phrase that hold it: each occurrence is counted once,
\* also a fragment that ends at the last token.
C11_Step ==
    CountedLine =>
        LET W == TrueWindows(Len(SplitSp(line'.src)))
        IN  /\ \A inp \in DOMAIN src_vocab' :
                   CountOf(src_vocab', inp) - CountOf(src_vocab, inp) =
                       Cardinality({w \in W : SrcFragment(line', w) = inp})
            /\ \A rep \in DOMAIN dst_vocab' :
                   CountOf(dst_vocab', rep) - CountOf(dst_vocab, rep) =
                       Cardinality({w \in W : RepFragment(line', w) = rep})
            /\ \A i \in 1..Len(full_vocab') :
                   full_vocab'[i].joint - JointOf(full_vocab, full_vocab'[i].inp, full_vocab'[i].rep) =
                       Cardinality({w \in W : /\ SrcFragment(line', w) = full_vocab'[i].inp
                                              /\ RepFragment(line', w) = full_vocab'[i].rep})

C11_EachWindowOnce == [][C11_Step]_vars

----------------------------------------------------------------------------
(* spellchecking_asr_customization_infer.py: main, lines 50-104 *)

\* at most MaxFiles input files of at most MaxFileLines lines; batch sizes up to MaxBatch
MaxFiles == 2
MaxFileLines == 3
MaxBatch == 2

\* cfg.inference.get("batch_size", 8) (line 80)
DefaultBatchSize == 8

\* line j of an input file, as readlines() returns it
FileLine(j) ==
    IF j = 2 THEN <<SP, "2", SP, "\n">>
    ELSE IF j = 3 THEN <<"\n">>
    ELSE <<ToString(j), "\n">>

FileOfLen(k) == [j \in 1..k |-> FileLine(j)]

FileLists ==
    UNION {[1..m -> {FileOfLen(k) : k \in 0..MaxFileLines}] : m \in 0..MaxFiles}

\* the prediction of the model for one line
Pred(x) == <<"p">> \o x

\* what model._infer returns for a batch: a prediction per line when d = 0,
\* one fewer when d = -1, one more when d = 1
InferOut(b, d) ==
    LET ps == [k \in 1..Len(b) |-> Pred(b[k])]
    IN  IF d = 0 THEN ps
        ELSE IF d < 0 THEN SubSeq(ps, 1, Len(ps) - 1)
        ELSE Append(ps, <<"?">>)

\* "\n".join(ps) (line 103)
RECURSIVE JoinNl(_)
JoinNl(ps) ==
    IF ps = <<>> THEN <<>>
    ELSE IF Len(ps) = 1 THEN ps[1]
    ELSE ps[1] \o <<"\n">> \o JoinNl(Tail(ps))

\* variant of ShouldFlush that forgets the last, shorter batch
FlushOnlyWhenFull(b, k, ls, bs) == Len(b) = bs

\* len(batch) == batch_size or i == len(lines) - 1 (line 90)
ShouldFlush(b, k, ls, bs) == Len(b) = bs \/ k = Len(ls) - 1

InitInfer ==
    /\ InitWith("pool", {"index_by_vocab"})
    /\ \E filelist \in BOOLEAN :
         \E files \in FileLists :
           \E bs \in (0..MaxBatch) \cup {DefaultBatchSize} :
             /\ filelist = FALSE => Len(files) = 1
             /\ InferIdle(filelist, files, bs)

\* lines 53-80: the configuration is checked and the file names collected
InferStart ==
    /\ ipc = "start"
    /\ \E pretrained \in BOOLEAN : \E exists \in BOOLEAN :
         IF ~pretrained
         THEN ipc' = "failed" /\ ierror' = "ValueError: no pre-trained model"
         ELSE IF ~from_filelist /\ ~exists
         THEN ipc' = "failed" /\ ierror' = "ValueError: not found"
         ELSE ipc' = "files" /\ ierror' = ierror
    /\ UNCHANGED <<from_filelist, in_files, batch_size, fidx, lines, li, batch, all_preds,
                   sent, faithful, written>>
    /\ UNCHANGED prep_vars

\* lines 82-87: the next input file is read
StartFile ==
    /\ ipc = "files"
    /\ fidx < Len(in_files)
    /\ lines' = in_files[fidx + 1]
    /\ li' = 0
    /\ batch' = <<>>
    /\ all_preds' = <<>>
    /\ sent' = <<>>
    /\ faithful' = TRUE
    /\ ipc' = "loop"
    /\ UNCHANGED <<from_filelist, in_files, batch_size, ierror, fidx, written>>
    /\ UNCHANGED prep_vars

\* lines 88-94: one iteration of the loop over the lines
Iterate ==
    /\ ipc = "loop"
    /\ li < Len(lines)
    /\ LET b2 == Append(batch, Strip(lines[li + 1]))
       IN  IF ShouldFlush(b2, li, lines, batch_size)
           THEN \E d \in {-1, 0, 1} :
                  /\ all_preds' = all_preds \o InferOut(b2, d)
                  /\ sent' = Append(sent, b2)
                  /\ faithful' = (faithful /\ d = 0)
                  /\ batch' = <<>>
           ELSE /\ batch' = b2
                /\ UNCHANGED <<all_preds, sent, faithful>>
    /\ li' = li + 1
    /\ UNCHANGED <<from_filelist, in_files, batch_size, ipc, ierror, fidx, lines, written>>
    /\ UNCHANGED prep_vars

\* lines 95-104: the predictions are counted and the output file is written
FinishFile ==
    /\ ipc = "loop"
    /\ li = Len(lines)
    /\ IF Len(all_preds) # Len(lines)
       THEN /\ ipc' = "failed"
            /\ ierror' = "ValueError: number of input lines and predictions is different"
            /\ UNCHANGED <<fidx, written>>
       ELSE /\ written' = Append(written, [file |-> fidx + 1, text |-> JoinNl(all_preds),
                                           npreds |-> Len(all_preds), faithful |-> faithful])
            /\ fidx' = fidx + 1
            /\ ipc' = "files"
            /\ ierror' = ierror
    /\ UNCHANGED <<from_filelist, in_files, batch_size, lines, li, batch, all_preds, sent,
                   faithful>>
    /\ UNCHANGED prep_vars

\* the loop of line 82 is over
InferEnd ==
    /\ ipc = "files"
    /\ fidx = Len(in_files)
    /\ ipc' = "done"
    /\ UNCHANGED <<from_filelist, in_files, batch_size, ierror, fidx, lines, li, batch,
                   all_preds, sent, faithful, written>>
    /\ UNCHANGED prep_vars

NextInfer == InferStart \/ StartFile \/ Iterate \/ FinishFile \/ InferEnd

SpecInfer == InitInfer /\ [][NextInfer]_vars

----------------------------------------------------------------------------
(* Properties of the inference loop *)

RECURSIVE Flatten(_)
Flatten(bs) == IF bs = <<>> THEN <<>> ELSE Head(bs) \o Flatten(Tail(bs))

StrippedLines(ls) == [k \in 1..Len(ls) |-> Strip(ls[k])]

\* C10: for every input file and every batch_size >= 1: the lines read so far
\* are, stripped and in file order, exactly the lines of the batches sent
\* followed by the batch being filled; every batch sent has between 1 and
\* batch_size lines and only the last batch of the file is shorter than
\* batch_size; no line is left unsent at the end of the file; every output
\* file written holds as many predictions as its input has lines and, when the
\* model returned a prediction per line for every batch, the predictions of its
\* lines in input order; a run that failed on the count has written no output
\* for that file.
C10_BatchesCoverLines ==
    batch_size >= 1 =>
        /\ Flatten(sent) \o batch = SubSeq(StrippedLines(lines), 1, li)
        /\ \A k \in 1..Len(sent) :
              /\ 1 <= Len(sent[k])
              /\ Len(sent[k]) <= batch_size
              /\ Len(sent[k]) < batch_size => (k = Len(sent) /\ li = Len(lines))
        /\ li = Len(lines) => batch = <<>>
        /\ \A k \in 1..Len(written) :
              LET w == written[k]
                  ls == StrippedLines(in_files[w.file])
              IN  /\ w.file = k
                  /\ w.npreds = Len(ls)
                  /\ w.faithful => w.text = JoinNl([j \in 1..Len(ls) |-> Pred(ls[j])])
        /\ Len(written) = fidx
        /\ (ipc = "failed" /\ ierror = "ValueError: number of input lines and predictions is different")
              => Len(all_preds) # Len(lines)
        /\ (ipc \in {"files", "done"} /\ fidx > 0) => Len(all_preds) = Len(lines)

\* C10 witness: with batch_size 2 a file of three lines went to the model as a
\* batch of two and a batch of one, and its output is written.
C10_Witness ==
    /\ ipc = "done"
    /\ batch_size = 2
    /\ Len(lines) = 3
    /\ Len(sent) = 2
    /\ Len(sent[2]) = 1
    /\ written # <<>>
    /\ written[Len(written)].faithful

====
